---- MODULE Spec2Model ----
(***************************************************************************)
(* Model of the equipment booking bot (src/main.py): the booking ledger,   *)
(* the inventory, the per-user FSM sessions (aiogram FSMContext: a state   *)
(* and a data dict), the resource text parser, the availability check and  *)
(* every message / callback handler.                                       *)
(*                                                                         *)
(* Representation.                                                         *)
(*  - A text that the code parses character by character (resource names,  *)
(*    the resource text) is a sequence of one-character strings.           *)
(*  - A date or time text is a string; strptime / strftime / isoformat are *)
(*    the tables ParseDate, ParseTime, FormatDate, FormatTime.             *)
(*  - A Python dict is a sequence of <<key, value>> pairs in insertion     *)
(*    order with unique keys (DGet, DSet, DPop).                           *)
(*  - callback_map {"i0": n0, "i1": n1, ...} and cart_map {"c0": ...} have *)
(*    the contiguous keys i0..i(n-1): they are the sequences <<n0, n1,..>> *)
(*    and key "i<idx>" is the number idx (MapGet).                         *)
(*  - An optional value (a key of the data dict that may be missing) is    *)
(*    <<>> when missing and <<v>> when present.                            *)
(*                                                                         *)
(* Variables.  inventory and ledger are the two sheets, sess the FSM       *)
(* storage, shown the buttons in each chat, last the last update and its   *)
(* answer.  appended and summaryAt count per user the rows appended since  *)
(* /book and the ledger length when the summary was sent.  probe is the    *)
(* last direct call of times_overlap or check_availability with its        *)
(* arguments and result.  inflight holds, per user, a confirm handler that *)
(* has passed its check and not yet appended; raced records that a row was *)
(* appended to a ledger other than the one its check had read.  summarised *)
(* is, per user, the fields of the last confirmation summary sent in the   *)
(* workflow; granted holds, row by row of the ledger, the mapping the      *)
(* availability check had accepted when the row was appended.              *)
(***************************************************************************)
EXTENDS Integers, Sequences, FiniteSets, TLC

VARIABLES inventory, ledger, sess, shown, last, appended, summaryAt,
          probe, inflight, raced, summarised, granted

vars ==
  <<inventory, ledger, sess, shown, last, appended, summaryAt, probe, inflight, raced,
    summarised, granted>>

(***************************************************************************)
(* Python dict helpers                                                     *)
(***************************************************************************)
RECURSIVE DIndex(_, _)
DIndex(d, k) ==
  IF d = <<>> THEN 0
  ELSE IF d[1][1] = k THEN 1
  ELSE LET r == DIndex(Tail(d), k) IN IF r = 0 THEN 0 ELSE r + 1

DHas(d, k) == DIndex(d, k) # 0

DGet(d, k, dflt) == IF DHas(d, k) THEN d[DIndex(d, k)][2] ELSE dflt

DSet(d, k, v) ==
  IF DHas(d, k) THEN [d EXCEPT ![DIndex(d, k)] = <<k, v>>]
  ELSE Append(d, <<k, v>>)

DPop(d, k) ==
  IF DHas(d, k)
  THEN LET i == DIndex(d, k) IN SubSeq(d, 1, i - 1) \o SubSeq(d, i + 1, Len(d))
  ELSE d

DKeys(d) == [i \in 1..Len(d) |-> d[i][1]]

\* dict.get on a map with keys i0..i(n-1) (or c0..c(n-1)): <<>> is None
MapGet(m, key) == IF key + 1 <= Len(m) THEN <<m[key + 1]>> ELSE <<>>

(***************************************************************************)
(* str helpers over character sequences                                    *)
(***************************************************************************)
IsSpace(c) == c \in {" ", "\n"}

IsDigit(c) == c \in {"0", "1", "2", "3", "4", "5", "6", "7", "8", "9"}

DigitVal(c) ==
  CASE c = "0" -> 0 [] c = "1" -> 1 [] c = "2" -> 2 [] c = "3" -> 3
    [] c = "4" -> 4 [] c = "5" -> 5 [] c = "6" -> 6 [] c = "7" -> 7
    [] c = "8" -> 8 [] OTHER -> 9

DigitChar(n) ==
  CASE n = 0 -> "0" [] n = 1 -> "1" [] n = 2 -> "2" [] n = 3 -> "3"
    [] n = 4 -> "4" [] n = 5 -> "5" [] n = 6 -> "6" [] n = 7 -> "7"
    [] n = 8 -> "8" [] OTHER -> "9"

\* str.lower() on the alphabet of the model
LowerCh(c) == CASE c = "A" -> "a" [] c = "B" -> "b" [] OTHER -> c

Lower(s) == [i \in 1..Len(s) |-> LowerCh(s[i])]

RECURSIVE LStrip(_)
LStrip(s) == IF s # <<>> /\ IsSpace(s[1]) THEN LStrip(Tail(s)) ELSE s

RECURSIVE RStrip(_)
RStrip(s) ==
  IF s # <<>> /\ IsSpace(s[Len(s)]) THEN RStrip(SubSeq(s, 1, Len(s) - 1)) ELSE s

\* str.strip()
Strip(s) == RStrip(LStrip(s))

\* position of the first / last occurrence of character c in s, 0 if none
RECURSIVE FirstPos(_, _)
FirstPos(s, c) ==
  IF s = <<>> THEN 0
  ELSE IF s[1] = c THEN 1
  ELSE LET r == FirstPos(Tail(s), c) IN IF r = 0 THEN 0 ELSE r + 1

RECURSIVE LastPos(_, _)
LastPos(s, c) ==
  IF s = <<>> THEN 0
  ELSE IF s[Len(s)] = c THEN Len(s)
  ELSE LastPos(SubSeq(s, 1, Len(s) - 1), c)

\* str.split(';')
RECURSIVE SplitOn(_, _)
SplitOn(s, c) ==
  LET p == FirstPos(s, c) IN
  IF p = 0 THEN <<s>>
  ELSE <<SubSeq(s, 1, p - 1)>> \o SplitOn(SubSeq(s, p + 1, Len(s)), c)

\* str.isdigit(): non-empty and digits only
AllDigits(s) == s # <<>> /\ \A i \in 1..Len(s) : IsDigit(s[i])

RECURSIVE DigitsVal(_)
DigitsVal(s) ==
  IF s = <<>> THEN 0
  ELSE 10 * DigitsVal(SubSeq(s, 1, Len(s) - 1)) + DigitVal(s[Len(s)])

\* int(s) : <<n>>, or <<>> when int() raises ValueError
ParseInt(s) ==
  LET t == Strip(s) IN
  IF AllDigits(t) THEN <<DigitsVal(t)>>
  ELSE IF t # <<>> /\ t[1] = "-" /\ AllDigits(Tail(t)) THEN <<0 - DigitsVal(Tail(t))>>
  ELSE IF t # <<>> /\ t[1] = "+" /\ AllDigits(Tail(t)) THEN <<DigitsVal(Tail(t))>>
  ELSE <<>>

\* str(n) of an integer
RECURSIVE NatStr(_)
NatStr(n) == IF n < 10 THEN <<DigitChar(n)>> ELSE NatStr(n \div 10) \o <<DigitChar(n % 10)>>

IntStr(n) == IF n < 0 THEN <<"-">> \o NatStr(0 - n) ELSE NatStr(n)

(***************************************************************************)
(* parse_resources                                                         *)
(***************************************************************************)
\* the three separators are replaced by ';'
NormalizeSeps(text) ==
  [i \in 1..Len(text) |-> IF text[i] \in {";", ",", "\n"} THEN ";" ELSE text[i]]

\* one stripped, non-empty chunk -> <<name, cnt_i>>
ParseChunk(chunk) ==
  LET colon == FirstPos(chunk, ":")
      space == LastPos(chunk, " ")
      pair  == IF colon # 0
               THEN <<SubSeq(chunk, 1, colon - 1), SubSeq(chunk, colon + 1, Len(chunk))>>
               ELSE IF space # 0 /\ AllDigits(SubSeq(chunk, space + 1, Len(chunk)))
               THEN <<SubSeq(chunk, 1, space - 1), SubSeq(chunk, space + 1, Len(chunk))>>
               ELSE <<chunk, <<"1">>>>
      cnt   == ParseInt(pair[2])
  IN <<Strip(pair[1]), IF cnt = <<>> THEN 1 ELSE cnt[1]>>

RECURSIVE ParseChunks(_, _)
ParseChunks(chunks, res) ==
  IF chunks = <<>> THEN res
  ELSE LET chunk == Strip(chunks[1]) IN
       IF chunk = <<>> THEN ParseChunks(Tail(chunks), res)
       ELSE LET p == ParseChunk(chunk) IN ParseChunks(Tail(chunks), DSet(res, p[1], p[2]))

parse_resources(text) == ParseChunks(SplitOn(NormalizeSeps(text), ";"), <<>>)

(***************************************************************************)
(* datetime.strptime / strftime / isoformat on the texts of the model.     *)
(* A date is its day number, a time of day its minutes after midnight.     *)
(***************************************************************************)
\* datetime.strptime(txt, "%Y-%m-%d").date() : <<d>>, or <<>> on ValueError
ParseDate(txt) ==
  CASE txt = "2026-03-10" -> <<1>>
    [] txt = "2026-3-10"  -> <<1>>
    [] txt = "2026-03-11" -> <<2>>
    [] OTHER -> <<>>

\* date.isoformat()
FormatDate(d) == IF d = 1 THEN "2026-03-10" ELSE "2026-03-11"

\* datetime.strptime(txt, "%H:%M").time() : <<t>>, or <<>> on ValueError
ParseTime(txt) ==
  CASE txt = "09:00" -> <<540>>
    [] txt = "9:00"  -> <<540>>
    [] txt = "10:00" -> <<600>>
    [] txt = "11:00" -> <<660>>
    [] OTHER -> <<>>

\* time.strftime("%H:%M")
FormatTime(t) == CASE t = 540 -> "09:00" [] t = 600 -> "10:00" [] OTHER -> "11:00"

\* message.text.strip() of a date, time or person text
StripText(txt) == IF txt = "  " THEN "" ELSE txt

\* mutant of LowerText: the text is stripped but not lower-cased
LowerTextKeepsCase(txt) == StripText(txt)

\* message.text.strip().lower() of a confirmation text ("da", "net" and
\* "otmena" stand for the Russian words for yes, no and cancel that the
\* handler compares with)
LowerText(txt) ==
  CASE txt = "Yes" -> "yes" [] txt = "YES" -> "yes" [] txt = "OK" -> "ok"
    [] txt = "Ok" -> "ok" [] txt = "Da" -> "da" [] txt = "DA" -> "da"
    [] txt = "No" -> "no" [] txt = "NO" -> "no" [] txt = "Cancel" -> "cancel"
    [] txt = "CANCEL" -> "cancel" [] txt = "Net" -> "net" [] txt = "NET" -> "net"
    [] txt = "Otmena" -> "otmena" [] txt = "OTMENA" -> "otmena"
    [] OTHER -> StripText(txt)

(***************************************************************************)
(* check_availability                                                      *)
(***************************************************************************)
\* mutant of times_overlap: closed intervals, touching endpoints overlap
times_overlap_closed(s1, e1, s2, e2) == (s1 <= e2) /\ (s2 <= e1)

times_overlap(s1, e1, s2, e2) == (s1 < e2) /\ (s2 < e1)

\* conflicts_counts[name] = conflicts_counts.get(name, 0) + cnt, over one row
RECURSIVE AddCounts(_, _)
AddCounts(cc, rr) ==
  IF rr = <<>> THEN cc
  ELSE AddCounts(DSet(cc, rr[1][1], DGet(cc, rr[1][1], 0) + rr[1][2]), Tail(rr))

\* mutant of RowCounts: rows of every date take part
RowCountsAnyDate(row, d, s, e) ==
  /\ ParseDate(row.date) # <<>>
  /\ ParseTime(row.start) # <<>>
  /\ ParseTime(row.end) # <<>>
  /\ times_overlap(s, e, ParseTime(row.start)[1], ParseTime(row.end)[1])

\* the row takes part: its date and times parse, same date, overlapping times
RowCounts(row, d, s, e) ==
  /\ ParseDate(row.date) # <<>>
  /\ ParseDate(row.date)[1] = d
  /\ ParseTime(row.start) # <<>>
  /\ ParseTime(row.end) # <<>>
  /\ times_overlap(s, e, ParseTime(row.start)[1], ParseTime(row.end)[1])

RECURSIVE ConflictsCounts(_, _, _, _, _)
ConflictsCounts(bookings, d, s, e, cc) ==
  IF bookings = <<>> THEN cc
  ELSE ConflictsCounts(Tail(bookings), d, s, e,
         IF RowCounts(bookings[1], d, s, e)
         THEN AddCounts(cc, parse_resources(bookings[1].resources))
         ELSE cc)

\* inv_cnt: the quantity of the first inventory name equal to name, trimmed
\* and lower-cased; 0 when there is none
RECURSIVE InvCount(_, _)
InvCount(inv, name) ==
  IF inv = <<>> THEN 0
  ELSE IF Lower(Strip(inv[1][1])) = Lower(Strip(name)) THEN inv[1][2]
  ELSE InvCount(Tail(inv), name)

\* mutant of UsedCount: no row counts against a request
UsedCountNone(cc, name) == 0

\* used = conflicts_counts.get(name, 0)
UsedCount(cc, name) == DGet(cc, name, 0)

Accepted == [ok |-> TRUE, kind |-> "ok", name |-> <<>>, free |-> 0, cnt |-> 0]

\* one requested pair against the inventory and the conflicts
CheckPair(name, cnt, inv, cc) ==
  LET inv_cnt == InvCount(inv, name)
      free    == inv_cnt - UsedCount(cc, name)
  IN IF inv_cnt = 0
     THEN [ok |-> FALSE, kind |-> "not_found", name |-> name, free |-> 0, cnt |-> cnt]
     ELSE IF free < cnt
     THEN [ok |-> FALSE, kind |-> "shortage", name |-> name, free |-> free, cnt |-> cnt]
     ELSE Accepted

\* mutant of CheckRequested: the pairs are examined from the last to the first
RECURSIVE CheckRequestedLastFirst(_, _, _)
CheckRequestedLastFirst(requested, inv, cc) ==
  IF requested = <<>> THEN Accepted
  ELSE LET rest == CheckRequestedLastFirst(Tail(requested), inv, cc) IN
       IF ~rest.ok THEN rest
       ELSE CheckPair(requested[1][1], requested[1][2], inv, cc)

RECURSIVE CheckRequested(_, _, _)
CheckRequested(requested, inv, cc) ==
  IF requested = <<>> THEN Accepted
  ELSE LET name    == requested[1][1]
           cnt     == requested[1][2]
           inv_cnt == InvCount(inv, name)
           free    == inv_cnt - UsedCount(cc, name)
       IN IF inv_cnt = 0
          THEN [ok |-> FALSE, kind |-> "not_found", name |-> name, free |-> 0, cnt |-> cnt]
          ELSE IF free < cnt
          THEN [ok |-> FALSE, kind |-> "shortage", name |-> name, free |-> free, cnt |-> cnt]
          ELSE CheckRequested(Tail(requested), inv, cc)

check_availability(d, s, e, requested) ==
  CheckRequested(requested, inventory, ConflictsCounts(ledger, d, s, e, <<>>))

(***************************************************************************)
(* The FSM session of one user: state (BookingStates, "none" when no state *)
(* is set) and the data dict.  inv_page is left out: it only chooses the   *)
(* visible page, and with at most PAGE_SIZE inventory rows there is one    *)
(* page and no page button (build_inventory_keyboard, total_pages = 1).    *)
(***************************************************************************)
PAGE_SIZE == 10

EmptyData ==
  [booking_date |-> <<>>, start_time |-> <<>>, end_time |-> <<>>,
   employee_name |-> <<>>, cart |-> <<>>, callback_map |-> <<>>,
   temp_select |-> <<>>, cart_map |-> <<>>, resources |-> <<>>,
   requested_parsed |-> <<>>, manager_name |-> <<>>]

\* state.clear()
Cleared == [state |-> "none", data |-> EmptyData]

\* data.get(key, {}) of an optional dict
GetOr(opt, dflt) == IF opt = <<>> THEN dflt ELSE opt[1]

(***************************************************************************)
(* The buttons a user has been shown (messages stay in the chat): select   *)
(* and quantity buttons as <<key, name shown>>, cart row buttons likewise. *)
(***************************************************************************)
NoButtons ==
  [sel |-> {}, qty |-> {}, cart |-> {}, catalog |-> FALSE, cartc |-> FALSE,
   confirm |-> FALSE]

\* build_inventory_keyboard: callback_map over the whole inventory
BuildCallbackMap(inv) == [i \in 1..Len(inv) |-> inv[i][1]]

\* build_inventory_keyboard: the buttons of the (single) page
CatalogButtons(inv) ==
  [NoButtons EXCEPT !.sel = {<<i - 1, inv[i][1]>> : i \in 1..Len(inv)},
                    !.catalog = TRUE]

QtyButtons(key, name) == [NoButtons EXCEPT !.qty = {<<key, name>>}]

\* view_cart / cart_actions: cart_map and the buttons of the cart message
BuildCartMap(cart) == DKeys(cart)

CartButtons(cart) ==
  [NoButtons EXCEPT !.cart = {<<i - 1, cart[i][1]>> : i \in 1..Len(cart)},
                    !.cartc = TRUE]

ConfirmButtons == [NoButtons EXCEPT !.confirm = TRUE]

AddButtons(a, b) ==
  [sel |-> a.sel \cup b.sel, qty |-> a.qty \cup b.qty, cart |-> a.cart \cup b.cart,
   catalog |-> a.catalog \/ b.catalog, cartc |-> a.cartc \/ b.cartc,
   confirm |-> a.confirm \/ b.confirm]

(***************************************************************************)
(* What a handler does: the session it leaves, the (last) message it       *)
(* answers (reply, with the resource name it mentions), the buttons it     *)
(* shows, the row it appends (<<>>: none).                                 *)
(***************************************************************************)
Result(s, reply, name, buttons, row) ==
  [s |-> s, reply |-> reply, name |-> name, show |-> buttons, row |-> row]

Answer(s, reply) == Result(s, reply, <<>>, NoButtons, <<>>)

Upd(s, f, v) == [s EXCEPT !.data[f] = <<v>>]

\* ------------------------------------------------------------- /book
cmd_book(s) == Answer([state |-> "waiting_for_date", data |-> EmptyData], "ask_date")

\* ------------------------------------------------------------- texts
process_date(s, text) ==
  LET dt == ParseDate(StripText(text)) IN
  IF dt = <<>> THEN Answer(s, "bad_date")
  ELSE Answer([Upd(s, "booking_date", FormatDate(dt[1])) EXCEPT !.state = "waiting_for_start"],
              "ask_start")

process_start(s, text) ==
  LET t == ParseTime(StripText(text)) IN
  IF t = <<>> THEN Answer(s, "bad_time")
  ELSE Answer([Upd(s, "start_time", FormatTime(t[1])) EXCEPT !.state = "waiting_for_end"],
              "ask_end")

\* mutant of EndRejected: an end equal to the start is let through
EndRejectedOnlyEarlier(t, start) == t < start

\* t <= start
EndRejected(t, start) == t <= start

\* mutant of process_end: a text that is no time ends the workflow
process_end_error_clears(s, text) ==
  LET t == ParseTime(StripText(text)) IN
  IF t = <<>> THEN Answer(Cleared, "bad_time")
  ELSE IF EndRejected(t[1], ParseTime(s.data.start_time[1])[1])
  THEN Answer(s, "end_not_after_start")
  ELSE Answer([Upd(s, "end_time", FormatTime(t[1])) EXCEPT !.state = "waiting_for_name"],
              "ask_name")

process_end(s, text) ==
  LET t == ParseTime(StripText(text)) IN
  IF t = <<>> THEN Answer(s, "bad_time")
  ELSE IF EndRejected(t[1], ParseTime(s.data.start_time[1])[1])
  THEN Answer(s, "end_not_after_start")
  ELSE Answer([Upd(s, "end_time", FormatTime(t[1])) EXCEPT !.state = "waiting_for_name"],
              "ask_name")

process_name(s, text) ==
  LET txt == StripText(text) IN
  IF txt = "" THEN Answer(s, "ask_name_again")
  ELSE Result([Upd(Upd(Upd(s, "employee_name", txt), "cart", <<>>),
                   "callback_map", BuildCallbackMap(inventory))
                 EXCEPT !.state = "waiting_for_resources"],
              "choose_resources", <<>>, CatalogButtons(inventory), <<>>)

\* ------------------------------------------------------------- select:<key>
\* mutant of StaleCatalog: the rebuilt callback_map is not stored
StaleCatalogNotStored(s) ==
  Result(s, "stale_catalog", <<>>, CatalogButtons(inventory), <<>>)

\* the lookup missed: the keyboard and callback_map are rebuilt
StaleCatalog(s) ==
  Result(Upd(s, "callback_map", BuildCallbackMap(inventory)),
         "stale_catalog", <<>>, CatalogButtons(inventory), <<>>)

\* callback_map.get(key)
ResolveCatalogKey(s, key) == MapGet(GetOr(s.data.callback_map, <<>>), key)

select_equipment(s, key) ==
  LET name == ResolveCatalogKey(s, key) IN
  IF name = <<>> THEN StaleCatalog(s)
  ELSE Result(Upd(s, "temp_select", [key |-> key, name |-> name[1], count |-> 1]),
              "selected", name[1], QtyButtons(key, name[1]), <<>>)

\* ------------------------------------------------------------- qty:cancel
qty_cancel(s) ==
  Result(Upd(s, "callback_map", BuildCallbackMap(inventory)),
         "select_cancelled", <<>>, CatalogButtons(inventory), <<>>)

\* ------------------------------------------------------------- qty:<key>:<action>
\* the count the handler starts from
TempCount(s, key) ==
  IF s.data.temp_select = <<>> THEN 1
  ELSE IF s.data.temp_select[1].key # key THEN 1
  ELSE s.data.temp_select[1].count

\* inv.get(name, 0)
MaxCount(inv, name) == DGet(inv, name, 0)

AdjustCount(count, max_cnt, action) ==
  IF action = "inc" THEN (IF count < max_cnt THEN count + 1 ELSE count)
  ELSE IF action = "dec" THEN (IF count > 1 THEN count - 1 ELSE count)
  ELSE count

\* mutant of AddToCart: the entry is overwritten with the count
AddToCartOverwrites(cart, name, count) == DSet(cart, name, count)

\* cart[name] = cart.get(name, 0) + count
AddToCart(cart, name, count) == DSet(cart, name, DGet(cart, name, 0) + count)

qty_handler(s, key, action) ==
  LET name == ResolveCatalogKey(s, key) IN
  IF name = <<>> THEN StaleCatalog(s)
  ELSE LET count == TempCount(s, key) IN
       IF action = "add"
       THEN Result(Upd(Upd(s, "cart", AddToCart(GetOr(s.data.cart, <<>>), name[1], count)),
                       "callback_map", BuildCallbackMap(inventory)),
                   "added", name[1], CatalogButtons(inventory), <<>>)
       ELSE Result(Upd(s, "temp_select",
                       [key |-> key, name |-> name[1],
                        count |-> AdjustCount(count, MaxCount(inventory, name[1]), action)]),
                   "qty_prompt", name[1], QtyButtons(key, name[1]), <<>>)

\* ------------------------------------------------------------- view_cart
view_cart(s) ==
  LET cart == GetOr(s.data.cart, <<>>) IN
  IF cart = <<>> THEN Answer(s, "cart_empty")
  ELSE Result(Upd(s, "cart_map", BuildCartMap(cart)), "cart_view", <<>>,
              CartButtons(cart), <<>>)

\* ------------------------------------------------------------- cart:clear, cart:close
cart_clear(s) == Answer(Upd(s, "cart", <<>>), "cart_cleared")

cart_close(s) ==
  Result(Upd(s, "callback_map", BuildCallbackMap(inventory)),
         "choose_more", <<>>, CatalogButtons(inventory), <<>>)

\* ------------------------------------------------------------- cart:dec:<key>, cart:remove:<key>
\* cart_map.get(key)
ResolveCartKey(s, key) == MapGet(GetOr(s.data.cart_map, <<>>), key)

\* the lookup missed: the user is told to open the cart again
StaleCart(s) == Answer(s, "stale_cart")

\* mutant of RerenderCart: the cart is shown again, the stored cart_map is kept
RerenderCartKeepsMap(s, reply, name) ==
  LET cart2 == GetOr(s.data.cart, <<>>) IN
  IF cart2 = <<>> THEN Result(s, reply, name, NoButtons, <<>>)
  ELSE Result(s, reply, name, CartButtons(cart2), <<>>)

\* after the change: the cart is shown again with a new cart_map, unless empty
RerenderCart(s, reply, name) ==
  LET cart2 == GetOr(s.data.cart, <<>>) IN
  IF cart2 = <<>> THEN Result(s, reply, name, NoButtons, <<>>)
  ELSE Result(Upd(s, "cart_map", BuildCartMap(cart2)), reply, name, CartButtons(cart2), <<>>)

\* mutant of cart_dec: an entry at quantity 1 is decremented to 0 and kept
cart_dec_keeps_zero(s, key) ==
  LET name == ResolveCartKey(s, key) IN
  IF name = <<>> THEN StaleCart(s)
  ELSE LET cart    == GetOr(s.data.cart, <<>>)
           current == DGet(cart, name[1], 0)
       IN IF current <= 0
          THEN RerenderCart(Upd(s, "cart", DPop(cart, name[1])), "cart_item_removed", name[1])
          ELSE RerenderCart(Upd(s, "cart", DSet(cart, name[1], current - 1)),
                            "cart_decremented", name[1])

cart_dec(s, key) ==
  LET name == ResolveCartKey(s, key) IN
  IF name = <<>> THEN StaleCart(s)
  ELSE LET cart    == GetOr(s.data.cart, <<>>)
           current == DGet(cart, name[1], 0)
       IN IF current <= 1
          THEN RerenderCart(Upd(s, "cart", DPop(cart, name[1])), "cart_item_removed", name[1])
          ELSE RerenderCart(Upd(s, "cart", DSet(cart, name[1], current - 1)),
                            "cart_decremented", name[1])

cart_remove(s, key) ==
  LET name == ResolveCartKey(s, key) IN
  IF name = <<>> THEN StaleCart(s)
  ELSE LET cart == GetOr(s.data.cart, <<>>) IN
       IF DHas(cart, name[1])
       THEN RerenderCart(Upd(s, "cart", DPop(cart, name[1])), "cart_item_deleted", name[1])
       ELSE RerenderCart(s, "cart_item_absent", name[1])

\* ------------------------------------------------------------- manual_input
manual_input(s) == Answer(Upd(s, "cart", <<>>), "ask_manual")

\* ------------------------------------------------------------- finish_selection
\* '; '.join([f"{k}:{v}" for k, v in cart.items()])
RECURSIVE ResourcesText(_)
ResourcesText(cart) ==
  IF cart = <<>> THEN <<>>
  ELSE cart[1][1] \o <<":">> \o IntStr(cart[1][2])
       \o (IF Len(cart) = 1 THEN <<>> ELSE <<";", " ">> \o ResourcesText(Tail(cart)))

\* the selection may be finished
CanFinish(cart) == cart # <<>>

finish_selection(s) ==
  LET cart == GetOr(s.data.cart, <<>>) IN
  IF ~CanFinish(cart) THEN Answer(s, "cart_empty_finish")
  ELSE Answer([Upd(Upd(s, "resources", ResourcesText(cart)), "requested_parsed", cart)
                 EXCEPT !.state = "waiting_for_manager"],
              "ask_manager")

\* ------------------------------------------------------------- resources typed as text
\* the typed text is taken as a resource list
TextGiven(txt) == txt # <<>>

process_resources(s, text) ==
  LET txt == Strip(text) IN
  IF ~TextGiven(txt) THEN Answer(s, "ask_resources_again")
  ELSE Answer([Upd(Upd(s, "resources", txt), "requested_parsed", parse_resources(txt))
                 EXCEPT !.state = "waiting_for_manager"],
              "ask_manager")

\* ------------------------------------------------------------- manager name, summary
\* data['booking_date'], data['start_time'], data['end_time'] raise no KeyError
HasWindow(s) ==
  s.data.booking_date # <<>> /\ s.data.start_time # <<>> /\ s.data.end_time # <<>>

\* check_availability on the session's date, times and requested_parsed
CheckSession(s) ==
  check_availability(ParseDate(s.data.booking_date[1])[1],
                     ParseTime(s.data.start_time[1])[1],
                     ParseTime(s.data.end_time[1])[1],
                     GetOr(s.data.requested_parsed, <<>>))

\* "бронирование невозможно": the state is cleared
Unavailable(chk) == Result(Cleared, "unavailable", chk.name, NoButtons, <<>>)

process_manager(s, text) ==
  LET txt == StripText(text)
      s1  == Upd(s, "manager_name", txt)
  IN IF txt = "" THEN Answer(s, "ask_manager_again")
     ELSE IF ~HasWindow(s1) THEN Answer(s1, "key_error")
     ELSE LET chk == CheckSession(s1) IN
          IF ~chk.ok THEN Unavailable(chk)
          ELSE IF s1.data.employee_name = <<>> THEN Answer(s1, "key_error")
          ELSE Result([s1 EXCEPT !.state = "confirm"], "summary", <<>>, ConfirmButtons, <<>>)

\* ------------------------------------------------------------- confirm:<action>, confirmation text
\* data['employee_name'], data['resources'], data['manager_name'] raise no KeyError
HasRowFields(s) ==
  s.data.employee_name # <<>> /\ s.data.resources # <<>> /\ s.data.manager_name # <<>>

\* the row in the order of BOOKING_COLUMNS
BookingRow(s) ==
  [date |-> s.data.booking_date[1], employee |-> s.data.employee_name[1],
   resources |-> s.data.resources[1], start |-> s.data.start_time[1],
   end |-> s.data.end_time[1], manager |-> s.data.manager_name[1]]

\* the fields the confirmation summary shows
SummaryShown(s) ==
  [date |-> FormatDate(ParseDate(s.data.booking_date[1])[1]),
   employee |-> s.data.employee_name[1],
   resources |-> GetOr(s.data.resources, ""),
   start |-> FormatTime(ParseTime(s.data.start_time[1])[1]),
   end |-> FormatTime(ParseTime(s.data.end_time[1])[1]),
   manager |-> s.data.manager_name[1]]

\* mutant of Booked: the state is not cleared after the row is appended
BookedStateKept(s) == Result(s, "booked", <<>>, NoButtons, <<BookingRow(s)>>)

\* append_booking_row, the answer, state.clear()
Booked(s) == Result(Cleared, "booked", <<>>, NoButtons, <<BookingRow(s)>>)

\* mutant of confirm_handler: no return after the rejection, the row is appended
confirm_handler_no_return(s, action) ==
  IF action = "cancel" THEN Answer(Cleared, "cancelled")
  ELSE IF ~HasWindow(s) \/ ~HasRowFields(s) THEN Answer(s, "key_error")
  ELSE Booked(s)

\* mutant of confirm_handler: cancel drops the state and keeps the data
confirm_handler_cancel_keeps_data(s, action) ==
  IF action = "cancel" THEN Answer([s EXCEPT !.state = "none"], "cancelled")
  ELSE IF ~HasWindow(s) THEN Answer(s, "key_error")
  ELSE LET chk == CheckSession(s) IN
       IF ~chk.ok THEN Unavailable(chk)
       ELSE IF ~HasRowFields(s) THEN Answer(s, "key_error")
       ELSE Booked(s)

confirm_handler(s, action) ==
  IF action = "cancel" THEN Answer(Cleared, "cancelled")
  ELSE IF ~HasWindow(s) THEN Answer(s, "key_error")
  ELSE LET chk == CheckSession(s) IN
       IF ~chk.ok THEN Unavailable(chk)
       ELSE IF ~HasRowFields(s) THEN Answer(s, "key_error")
       ELSE Booked(s)

process_confirm_text(s, text) ==
  LET txt == LowerText(text) IN
  IF txt \in {"otmena", "cancel", "net", "no"} THEN Answer(Cleared, "cancelled")
  ELSE IF txt \in {"da", "ok", "yes"}
  THEN IF ~HasWindow(s) THEN Answer(s, "key_error")
       ELSE LET chk == CheckSession(s) IN
            IF ~chk.ok THEN Unavailable(chk)
            ELSE IF ~HasRowFields(s) THEN Answer(s, "key_error")
            ELSE Result(Cleared, "booked", <<>>, NoButtons, <<BookingRow(s)>>)
  ELSE Answer(s, "confirm_hint")

(***************************************************************************)
(* Bounds and inputs                                                       *)
(***************************************************************************)
\* rows the ledger may hold
MaxLedger == 2

\* largest quantity of one cart entry
MaxCartQty == 2

Users == {"u1", "u2"}

NameA == <<"A">>

NameB == <<"B">>

\* the inventory sheet as get_inventory reads it: <<name, count>> rows
InvA == <<<<NameA, 1>>>>

InvAB == <<<<NameA, 2>>, <<NameB, 1>>>>

InvB == <<<<NameB, 0>>>>

Inventories == {InvAB, InvB}

\* a name with a comma in it, as the name column of the sheet may hold
NameCD == <<"C", ",", "D">>

InvCD == <<<<NameCD, 1>>>>

DateTexts == {"2026-03-10", "2026-3-10", "10.03.2026"}

TimeTexts == {"09:00", "9:00", "10:00", "9 am"}

PersonTexts == {"Ann", "  "}

\* "A:1", "a:1", ";", "A 2"
ResourceTexts == {<<"A", ":", "1">>, <<"a", ":", "1">>, <<";">>, <<"A", " ", "2">>}

ConfirmTexts == {"Yes", "no", "maybe"}

QtyActions == {"inc", "dec", "noop", "add"}

(***************************************************************************)
(* State                                                                   *)
(*   inventory : the inventory sheet                                       *)
(*   ledger    : the bookings sheet, newest row first (insert_row index 2) *)
(*   sess      : user -> FSM session                                       *)
(*   shown     : user -> the buttons the bot has sent to the user          *)
(*   last      : the last event handled, the button pressed (key, the name *)
(*               it was shown for) and the answer of the handler           *)
(*   appended  : user -> rows appended for the user since the last /book   *)
(*   summaryAt : user -> the number of ledger rows when the confirmation   *)
(*               summary was sent to the user (0 outside state confirm)    *)
(***************************************************************************)
\* no call recorded
NoProbe == [fn |-> "none"]

NoEvent ==
  [u |-> "u1", ev |-> "none", key |-> 0, label |-> <<>>, reply |-> "none", name |-> <<>>]

InitWith(inv) ==
  /\ inventory = inv
  /\ ledger = <<>>
  /\ sess = [u \in Users |-> Cleared]
  /\ shown = [u \in Users |-> NoButtons]
  /\ last = NoEvent
  /\ appended = [u \in Users |-> 0]
  /\ summaryAt = [u \in Users |-> 0]
  /\ probe = NoProbe
  /\ inflight = [u \in Users |-> <<>>]
  /\ raced = FALSE
  /\ summarised = [u \in Users |-> <<>>]
  /\ granted = [i \in 1..Len(ledger) |-> parse_resources(ledger[i].resources)]

CartWithin(s) ==
  LET cart == GetOr(s.data.cart, <<>>) IN \A i \in 1..Len(cart) : cart[i][2] <= MaxCartQty

\* mutant of Deliver: the FSM storage holds one session for all the users
DeliverOneStorage(u, ev, key, label, r) ==
  /\ CartWithin(r.s)
  /\ r.row # <<>> => Len(ledger) < MaxLedger
  /\ sess' = [v \in Users |-> r.s]
  /\ ledger' = r.row \o ledger
  /\ shown' = [shown EXCEPT ![u] = AddButtons(@, r.show)]
  /\ last' = [u |-> u, ev |-> ev, key |-> key, label |-> label,
              reply |-> r.reply, name |-> r.name]
  /\ appended' = [appended EXCEPT ![u] = IF ev = "book" THEN 0
                                         ELSE IF r.row # <<>> THEN @ + 1 ELSE @]
  /\ summaryAt' = [summaryAt EXCEPT ![u] = IF r.reply = "summary" THEN Len(ledger)
                                           ELSE IF r.s.state # "confirm" THEN 0 ELSE @]
  /\ summarised' = [summarised EXCEPT ![u] = IF r.reply = "summary" THEN <<SummaryShown(r.s)>>
                                             ELSE IF ev = "book" \/ r.s.state = "none" THEN <<>>
                                             ELSE @]
  /\ granted' = (IF r.row = <<>> THEN <<>>
                 ELSE <<GetOr(sess[u].data.requested_parsed, <<>>)>>) \o granted
  /\ UNCHANGED <<inventory, probe, inflight, raced>>

\* one update handled for user u: event ev (button key and shown name when it
\* is a keyed button, the text when it is a confirmation text) with the
\* handler's result r
Deliver(u, ev, key, label, r) ==
  /\ CartWithin(r.s)
  /\ r.row # <<>> => Len(ledger) < MaxLedger
  /\ sess' = [sess EXCEPT ![u] = r.s]
  /\ ledger' = r.row \o ledger
  /\ shown' = [shown EXCEPT ![u] = AddButtons(@, r.show)]
  /\ last' = [u |-> u, ev |-> ev, key |-> key, label |-> label,
              reply |-> r.reply, name |-> r.name]
  /\ appended' = [appended EXCEPT ![u] = IF ev = "book" THEN 0
                                         ELSE IF r.row # <<>> THEN @ + 1 ELSE @]
  /\ summaryAt' = [summaryAt EXCEPT ![u] = IF r.reply = "summary" THEN Len(ledger)
                                           ELSE IF r.s.state # "confirm" THEN 0 ELSE @]
  /\ summarised' = [summarised EXCEPT ![u] = IF r.reply = "summary" THEN <<SummaryShown(r.s)>>
                                             ELSE IF ev = "book" \/ r.s.state = "none" THEN <<>>
                                             ELSE @]
  /\ granted' = (IF r.row = <<>> THEN <<>>
                 ELSE <<GetOr(sess[u].data.requested_parsed, <<>>)>>) \o granted
  /\ UNCHANGED <<inventory, probe, inflight, raced>>

Book(u) == Deliver(u, "book", 0, <<>>, cmd_book(sess[u]))

TextDate(u, texts) ==
  /\ sess[u].state = "waiting_for_date"
  /\ \E t \in texts : Deliver(u, "text_date", 0, <<>>, process_date(sess[u], t))

TextStart(u, texts) ==
  /\ sess[u].state = "waiting_for_start"
  /\ \E t \in texts : Deliver(u, "text_start", 0, <<>>, process_start(sess[u], t))

TextEnd(u, texts) ==
  /\ sess[u].state = "waiting_for_end"
  /\ \E t \in texts : Deliver(u, "text_end", 0, <<>>, process_end(sess[u], t))

TextName(u, texts) ==
  /\ sess[u].state = "waiting_for_name"
  /\ \E t \in texts : Deliver(u, "text_name", 0, <<>>, process_name(sess[u], t))

TextResources(u, texts) ==
  /\ sess[u].state = "waiting_for_resources"
  /\ \E t \in texts :
       Deliver(u, "text_resources", 0, <<>>, process_resources(sess[u], t))

TextManager(u, texts) ==
  /\ sess[u].state = "waiting_for_manager"
  /\ \E t \in texts : Deliver(u, "text_manager", 0, <<>>, process_manager(sess[u], t))

TextConfirm(u, texts) ==
  /\ sess[u].state = "confirm"
  /\ \E t \in texts :
       Deliver(u, "text_confirm", 0, t, process_confirm_text(sess[u], t))

PressConfirm(u) ==
  /\ shown[u].confirm
  /\ \E a \in {"yes", "cancel"} :
       Deliver(u, "confirm_" \o a, 0, <<>>, confirm_handler(sess[u], a))

PressSelect(u) ==
  \E b \in shown[u].sel :
    Deliver(u, "select", b[1], b[2], select_equipment(sess[u], b[1]))

PressQty(u) ==
  \E b \in shown[u].qty : \E a \in QtyActions :
    Deliver(u, "qty_" \o a, b[1], b[2], qty_handler(sess[u], b[1], a))

PressQtyCancel(u) ==
  /\ shown[u].qty # {}
  /\ Deliver(u, "qty_cancel", 0, <<>>, qty_cancel(sess[u]))

PressViewCart(u) ==
  /\ shown[u].catalog
  /\ Deliver(u, "view_cart", 0, <<>>, view_cart(sess[u]))

PressManualInput(u) ==
  /\ shown[u].catalog
  /\ Deliver(u, "manual_input", 0, <<>>, manual_input(sess[u]))

PressFinish(u) ==
  /\ shown[u].catalog
  /\ Deliver(u, "finish_selection", 0, <<>>, finish_selection(sess[u]))

PressCartClear(u) ==
  /\ shown[u].cartc
  /\ Deliver(u, "cart_clear", 0, <<>>, cart_clear(sess[u]))

PressCartClose(u) ==
  /\ shown[u].cartc
  /\ Deliver(u, "cart_close", 0, <<>>, cart_close(sess[u]))

PressCartDec(u) ==
  \E b \in shown[u].cart :
    Deliver(u, "cart_dec", b[1], b[2], cart_dec(sess[u], b[1]))

PressCartRemove(u) ==
  \E b \in shown[u].cart :
    Deliver(u, "cart_remove", b[1], b[2], cart_remove(sess[u], b[1]))

\* the administrator edits the inventory sheet
EditInventory ==
  /\ \E inv \in Inventories : inv # inventory /\ Len(inv) <= PAGE_SIZE /\ inventory' = inv
  /\ UNCHANGED <<ledger, sess, shown, last, appended, summaryAt, probe, inflight, raced,
                 summarised, granted>>

\* the dialogue up to the resource selection, one date and one window
Opening(u) ==
  \/ Book(u) \/ TextDate(u, {"2026-03-10"}) \/ TextStart(u, {"09:00", "10:00"})
  \/ TextEnd(u, {"09:00", "10:00"}) \/ TextName(u, {"Ann"})

\* the end of the dialogue: resources as text or from the cart, manager,
\* confirmation
Closing(u) ==
  \/ TextResources(u, {<<"A", ":", "1">>, <<";">>}) \/ PressFinish(u)
  \/ TextManager(u, {"Ann"}) \/ TextConfirm(u, {"Yes", "no"}) \/ PressConfirm(u)

\* the catalog keyboard and the quantity prompt
Catalog(u) ==
  \/ PressSelect(u) \/ PressQty(u) \/ PressQtyCancel(u) \/ PressManualInput(u)

\* the cart message
Cart(u) ==
  \/ PressViewCart(u) \/ PressCartClear(u) \/ PressCartClose(u)
  \/ PressCartDec(u) \/ PressCartRemove(u)

\* Spec: two users book by text and confirm by button or text; one unit of A
Init == InitWith(InvA)

Next ==
  \E u \in Users :
    \/ Book(u) \/ TextDate(u, DateTexts) \/ TextStart(u, TimeTexts)
    \/ TextEnd(u, TimeTexts) \/ TextName(u, PersonTexts)
    \/ TextResources(u, ResourceTexts) \/ TextManager(u, PersonTexts)
    \/ TextConfirm(u, ConfirmTexts) \/ PressConfirm(u)

Spec == Init /\ [][Next]_vars

\* SpecFull: one user, every handler; one unit of A
NextFull == Opening("u1") \/ Catalog("u1") \/ Cart("u1") \/ Closing("u1")

SpecFull == Init /\ [][NextFull]_vars

\* SpecCart: one user fills and edits the cart; A and B in the inventory
InitCart == InitWith(InvAB)

NextCart == Opening("u1") \/ Catalog("u1") \/ Cart("u1")

SpecCart == InitCart /\ [][NextCart]_vars

\* SpecAdmin: one user at the catalog while the inventory sheet is edited
NextAdmin == Opening("u1") \/ Catalog("u1") \/ EditInventory

SpecAdmin == InitCart /\ [][NextAdmin]_vars

(***************************************************************************)
(* Properties                                                              *)
(***************************************************************************)
Days == {1, 2}

\* instants of the day, every half hour from 09:00 to 11:00
Instants == {540 + 30 * i : i \in 0..4}

\* two names denote one resource: equal after trimming and lower-casing
SameResource(a, b) == Lower(Strip(a)) = Lower(Strip(b))

\* the quantity of resource name in a parsed resource mapping
RECURSIVE QtyOf(_, _)
QtyOf(rr, name) ==
  IF rr = <<>> THEN 0
  ELSE (IF SameResource(rr[1][1], name) THEN rr[1][2] ELSE 0) + QtyOf(Tail(rr), name)

RowWindowOk(row) ==
  ParseDate(row.date) # <<>> /\ ParseTime(row.start) # <<>> /\ ParseTime(row.end) # <<>>

\* the row's interval [start, end) on day d contains instant t
RowCovers(row, d, t) ==
  /\ RowWindowOk(row)
  /\ ParseDate(row.date)[1] = d
  /\ ParseTime(row.start)[1] <= t
  /\ t < ParseTime(row.end)[1]

\* committed quantity of resource name at instant t of day d
RECURSIVE CommittedAt(_, _, _, _)
CommittedAt(rows, d, t, name) ==
  IF rows = <<>> THEN 0
  ELSE (IF RowCovers(rows[1], d, t) THEN QtyOf(parse_resources(rows[1].resources), name)
        ELSE 0) + CommittedAt(Tail(rows), d, t, name)

\* the row is on day d and its interval shares an instant with [s, e)
RowOverlaps(row, d, s, e) ==
  /\ RowWindowOk(row)
  /\ ParseDate(row.date)[1] = d
  /\ s < ParseTime(row.end)[1]
  /\ ParseTime(row.start)[1] < e

\* committed quantity of resource name over the rows overlapping [s, e) on d
RECURSIVE CommittedOver(_, _, _, _, _)
CommittedOver(rows, d, s, e, name) ==
  IF rows = <<>> THEN 0
  ELSE (IF RowOverlaps(rows[1], d, s, e)
        THEN QtyOf(parse_resources(rows[1].resources), name) ELSE 0)
       + CommittedOver(Tail(rows), d, s, e, name)

SessDay(s) == ParseDate(s.data.booking_date[1])[1]

SessStart(s) == ParseTime(s.data.start_time[1])[1]

SessEnd(s) == ParseTime(s.data.end_time[1])[1]

\* the last update was a confirm signal of user u: the confirm button, or an
\* affirmative text (a text answered neither by the hint nor by the cancel)
ConfirmSignal(u) ==
  /\ last'.u = u
  /\ \/ last'.ev = "confirm_yes"
     \/ last'.ev = "text_confirm" /\ last'.reply \notin {"cancelled", "confirm_hint"}

(* C1: with a fixed inventory, an empty ledger at the start and handlers run
   one at a time, for every day, instant and inventory resource (names
   compared trimmed and case-insensitively) the committed quantity covering
   the instant is at most the inventory quantity. *)
C1_NoOverbooking ==
  \A d \in Days : \A t \in Instants : \A i \in 1..Len(inventory) :
    CommittedAt(ledger, d, t, inventory[i][1]) <= inventory[i][2]

\* user u is in state confirm and a row committed since the summary was sent,
\* on the same day with an overlapping window, leaves fewer free units of a
\* requested resource than requested
StarvedSinceSummary(u) ==
  /\ sess[u].state = "confirm"
  /\ LET s   == sess[u]
         req == GetOr(s.data.requested_parsed, <<>>)
     IN /\ \E i \in 1..(Len(ledger) - summaryAt[u]) :
             RowOverlaps(ledger[i], SessDay(s), SessStart(s), SessEnd(s))
        /\ \E j \in 1..Len(req) :
             InvCount(inventory, req[j][1])
               - CommittedOver(ledger, SessDay(s), SessStart(s), SessEnd(s), req[j][1])
             < req[j][2]

(* C2: when a session is in state confirm and another session has since
   committed an overlapping row on the same day that leaves fewer free units
   of a requested resource than requested, a confirm signal of the session
   appends nothing and clears the session. *)
C2_RecheckAtConfirm ==
  [][\A u \in Users :
       (StarvedSinceSummary(u) /\ ConfirmSignal(u))
         => (ledger' = ledger /\ sess'[u] = Cleared)]_vars

(* C3: between a /book and the next /book of a user at most one row is
   appended for the user, also when the confirm signal comes again. *)
C3_AtMostOneAppend == \A u \in Users : appended[u] <= 1

\* the confirm button was pressed again after the row was appended
C3_Witness ==
  /\ appended["u1"] = 1
  /\ last.u = "u1" /\ last.ev = "confirm_yes" /\ last.reply = "key_error"

\* the last update ran check_availability for user u: the manager name, the
\* confirm button or an affirmative text, with date and times in the data
RanCheck(u) ==
  /\ last'.u = u
  /\ HasWindow(sess[u])
  /\ \/ last'.ev = "text_manager" /\ last'.reply # "ask_manager_again"
     \/ last'.ev = "confirm_yes"
     \/ last'.ev = "text_confirm" /\ last'.reply \notin {"cancelled", "confirm_hint"}

(* C4: whenever a handler runs the availability check and the check rejects
   the request (on the way to the summary or at the confirm signal), the
   ledger is unchanged and the session is cleared: no state, no data. *)
C4_RejectedCommitsNothing ==
  [][\A u \in Users :
       (RanCheck(u) /\ ~CheckSession(sess[u]).ok)
         => (ledger' = ledger /\ sess'[u] = Cleared)]_vars

\* a confirm button was answered by the rejection while the one committed row
\* holds the unit of A
C4_Witness ==
  /\ last.ev = "confirm_yes" /\ last.reply = "unavailable"
  /\ sess[last.u] = Cleared
  /\ Len(ledger) = 1
  /\ QtyOf(parse_resources(ledger[1].resources), NameA) = 1

\* the workflow states in their order
Chain ==
  <<"waiting_for_date", "waiting_for_start", "waiting_for_end", "waiting_for_name",
    "waiting_for_resources", "waiting_for_manager", "confirm">>

LinearStep(a, b) ==
  \/ b = "waiting_for_date"
  \/ b = "none"
  \/ \E i \in 1..(Len(Chain) - 1) : a = Chain[i] /\ b = Chain[i + 1]

(* C5: every change of a session's state is a restart (to waiting_for_date),
   a termination (to no state) or a step to the next state of the chain. *)
C5_LinearWorkflow ==
  [][\A u \in Users :
       sess'[u].state # sess[u].state => LinearStep(sess[u].state, sess'[u].state)]_vars

(* C6: whenever a session goes from waiting_for_resources to
   waiting_for_manager, by the finish button or by a typed text, the
   requested mapping stored in the data is non-empty. *)
C6_NonEmptyRequest ==
  [][\A u \in Users :
       (sess[u].state = "waiting_for_resources" /\ sess'[u].state = "waiting_for_manager")
         => GetOr(sess'[u].data.requested_parsed, <<>>) # <<>>]_vars

(* C7: an end time not later than the start leaves the session in
   waiting_for_end with no end time stored; every session that holds a start
   and an end time, and every ledger row, has start < end. *)
C7_EndAfterStart ==
  /\ \A u \in Users :
       (sess[u].data.start_time # <<>> /\ sess[u].data.end_time # <<>>)
         => SessStart(sess[u]) < SessEnd(sess[u])
  /\ \A i \in 1..Len(ledger) :
       ParseTime(ledger[i].start)[1] < ParseTime(ledger[i].end)[1]
  /\ last.reply = "end_not_after_start"
       => (sess[last.u].state = "waiting_for_end" /\ sess[last.u].data.end_time = <<>>)

\* an end time was refused while a booked row is in the ledger
C7_Witness ==
  /\ last.reply = "end_not_after_start"
  /\ ledger # <<>>
  /\ \E u \in Users : sess[u].data.end_time # <<>>

(* C8: a select or quantity button shown with the name of resource A never
   selects, adjusts or adds another resource: when the handler resolves the
   key, the name it resolves to is the name the button was shown with. *)
C8_StaleCatalogKeyFailsClosed ==
  (last.ev \in {"select", "qty_inc", "qty_dec", "qty_noop", "qty_add"}
     /\ last.reply \in {"selected", "qty_prompt", "added"})
    => last.name = last.label

\* the cart of a session, and the quantity of one name in it (0 when absent)
CartOf(s) == GetOr(s.data.cart, <<>>)

(* C9: a decrement or remove button of the cart shown for entry A never
   changes or removes another entry, and never answers that an entry was
   decremented or removed that is not in the cart. *)
C9_StaleCartKeyIsStale ==
  [][\A u \in Users :
       (last'.u = u /\ last'.ev \in {"cart_dec", "cart_remove"})
         => /\ \A n \in {NameA, NameB} :
                 n # last'.label
                   => DGet(CartOf(sess'[u]), n, 0) = DGet(CartOf(sess[u]), n, 0)
            /\ last'.reply \in {"cart_item_removed", "cart_decremented", "cart_item_deleted"}
                 => DHas(CartOf(sess[u]), last'.name)]_vars

\* the last update pressed a catalog button / a cart button whose key is not
\* in the session's key map
CatalogMiss(u) ==
  /\ last'.u = u
  /\ last'.ev \in {"select", "qty_inc", "qty_dec", "qty_noop", "qty_add"}
  /\ MapGet(GetOr(sess[u].data.callback_map, <<>>), last'.key) = <<>>

CartMiss(u) ==
  /\ last'.u = u
  /\ last'.ev \in {"cart_dec", "cart_remove"}
  /\ MapGet(GetOr(sess[u].data.cart_map, <<>>), last'.key) = <<>>

(* C10, as claimed: on every key lookup miss the handler stores a newly
   generated key map of the kind of the key and leaves the cart unchanged. *)
C10_MissRegeneratesMap ==
  [][\A u \in Users :
       /\ CatalogMiss(u)
            => /\ sess'[u].data.callback_map = <<BuildCallbackMap(inventory)>>
               /\ sess'[u].data.cart = sess[u].data.cart
       /\ CartMiss(u)
            => /\ sess'[u].data.cart_map = <<BuildCartMap(CartOf(sess[u]))>>
               /\ sess'[u].data.cart = sess[u].data.cart]_vars

(* C10, amended: a miss of a select or quantity key stores a newly generated
   catalog key map and changes nothing else of the session; a miss of a cart
   key changes nothing of the session (no cart key map is generated, the
   user is told to open the cart again). *)
C10_MissHandling ==
  [][\A u \in Users :
       /\ CatalogMiss(u)
            => /\ sess'[u] = Upd(sess[u], "callback_map", BuildCallbackMap(inventory))
               /\ last'.reply = "stale_catalog"
       /\ CartMiss(u)
            => /\ sess'[u] = sess[u]
               /\ last'.reply = "stale_cart"]_vars

\* a cart button missed while the cart holds an entry and has a key map
C10_Witness ==
  /\ last.ev = "cart_dec" /\ last.reply = "stale_cart"
  /\ CartOf(sess[last.u]) # <<>>
  /\ sess[last.u].data.cart_map # <<>>

(* C11: in every reachable session every entry present in the cart has a
   quantity of at least 1: a decrement that would reach 0 removes the entry. *)
C11_CartEntriesPositive ==
  \A u \in Users : \A i \in 1..Len(CartOf(sess[u])) : CartOf(sess[u])[i][2] >= 1

\* the -1 button of an entry removed that entry and left another in the cart
C11_Witness ==
  /\ last.ev = "cart_dec" /\ last.reply = "cart_item_removed"
  /\ last.name = last.label
  /\ ~DHas(CartOf(sess[last.u]), last.name)
  /\ CartOf(sess[last.u]) # <<>>

(* C12: after a quantity 'add' or a quantity 'cancel' the session holds no
   transient selection (temp_select). *)
C12_TransientSelectionCleared ==
  [][\A u \in Users :
       (last'.u = u /\ last'.ev \in {"qty_add", "qty_cancel"}
          /\ last'.reply \in {"added", "select_cancelled"})
         => sess'[u].data.temp_select = <<>>]_vars

(* C13: a resource whose inventory quantity is 0, or that is not in the
   inventory, is never added to the cart: whenever the add button adds a
   resource, the inventory holds a positive quantity of it. *)
C13_ZeroBoundNotAddable ==
  [][\A u \in Users :
       (last'.u = u /\ last'.ev = "qty_add" /\ last'.reply = "added")
         => MaxCount(inventory, last'.name) > 0]_vars

(***************************************************************************)
(* SpecEngine: times_overlap and check_availability called directly, once   *)
(* per behaviour, on the ledgers of at most MaxEngineRows rows of          *)
(* EngineRows                                                              *)
(***************************************************************************)
\* rows of the bookings sheet in a ledger of SpecEngine
MaxEngineRows == 2

Lower_a == <<"a">>

NameZ == <<"Z">>

EngineRow(date, start, end, res) ==
  [date |-> date, employee |-> "Ann", resources |-> res, start |-> start,
   end |-> end, manager |-> "Ann"]

\* "A:1" 09:00-10:00 and "a:1" 10:00-11:00 on the 10th, "A:1" on the 11th, a
\* row whose date does not parse, "B:1;A:1" 09:00-11:00 on the 10th
EngineRows ==
  {EngineRow("2026-03-10", "09:00", "10:00", <<"A", ":", "1">>),
   EngineRow("2026-03-10", "10:00", "11:00", <<"a", ":", "1">>),
   EngineRow("2026-03-11", "09:00", "10:00", <<"A", ":", "1">>),
   EngineRow("10.03.2026", "09:00", "10:00", <<"A", ":", "1">>),
   EngineRow("2026-03-10", "09:00", "11:00", <<"B", ":", "1", ";", "A", ":", "1">>)}

EngineLedgers == UNION {[1..n -> EngineRows] : n \in 0..MaxEngineRows}

\* requested mappings: {}, {A:1}, {a:1}, {A:2}, {A:1, a:1}, {B:2, A:3}, {Z:1, A:3}
EngineRequests ==
  {<<>>, <<<<NameA, 1>>>>, <<<<Lower_a, 1>>>>, <<<<NameA, 2>>>>,
   <<<<NameA, 1>>, <<Lower_a, 1>>>>, <<<<NameB, 2>>, <<NameA, 3>>>>,
   <<<<NameZ, 1>>, <<NameA, 3>>>>}

EngineNames == {NameA, Lower_a, NameB, NameZ}

EngineTimes == {540, 600, 660}

InitEngine ==
  /\ inventory \in {InvA, InvAB}
  /\ ledger \in EngineLedgers
  /\ sess = [u \in Users |-> Cleared]
  /\ shown = [u \in Users |-> NoButtons]
  /\ last = NoEvent
  /\ appended = [u \in Users |-> 0]
  /\ summaryAt = [u \in Users |-> 0]
  /\ probe = NoProbe
  /\ inflight = [u \in Users |-> <<>>]
  /\ raced = FALSE
  /\ summarised = [u \in Users |-> <<>>]
  /\ granted = [i \in 1..Len(ledger) |-> parse_resources(ledger[i].resources)]

\* times_overlap(s1, e1, s2, e2) on two intervals with s1 < e1 and s2 < e2
ProbeOverlap ==
  /\ probe = NoProbe
  /\ \E s1 \in Instants, e1 \in Instants, s2 \in Instants, e2 \in Instants :
       /\ s1 < e1 /\ s2 < e2
       /\ probe' = [fn |-> "times_overlap", s1 |-> s1, e1 |-> e1, s2 |-> s2, e2 |-> e2,
                    out |-> times_overlap(s1, e1, s2, e2)]
  /\ UNCHANGED <<inventory, ledger, sess, shown, last, appended, summaryAt, inflight, raced,
                 summarised, granted>>

\* check_availability(d, s, e, requested), with the conflicts_counts it built
ProbeCheck ==
  /\ probe = NoProbe
  /\ \E d \in Days, s \in EngineTimes, e \in EngineTimes, req \in EngineRequests :
       /\ s < e
       /\ probe' = [fn |-> "check_availability", d |-> d, s |-> s, e |-> e,
                    requested |-> req,
                    cc |-> ConflictsCounts(ledger, d, s, e, <<>>),
                    out |-> check_availability(d, s, e, req)]
  /\ UNCHANGED <<inventory, ledger, sess, shown, last, appended, summaryAt, inflight, raced,
                 summarised, granted>>

NextEngine == ProbeOverlap \/ ProbeCheck

SpecEngine == InitEngine /\ [][NextEngine]_vars

\* the minutes of the day from 09:00 to 11:00
Minutes == 540..660

(* C14: for s1 < e1 and s2 < e2, times_overlap is true exactly when [s1, e1)
   and [s2, e2) share an instant; intervals that touch at an endpoint do not
   overlap; the result is the same with the two intervals exchanged. *)
C14_OverlapHalfOpen ==
  probe.fn = "times_overlap"
    => /\ probe.out <=> \E t \in Minutes :
                          /\ probe.s1 <= t /\ t < probe.e1
                          /\ probe.s2 <= t /\ t < probe.e2
       /\ (probe.e1 = probe.s2 \/ probe.e2 = probe.s1) => ~probe.out
       /\ probe.out <=> times_overlap(probe.s2, probe.e2, probe.s1, probe.e1)

\* the call on two intervals that touch: 09:00-10:00 and 10:00-11:00
C14_Witness ==
  /\ probe.fn = "times_overlap"
  /\ probe.s1 = 540 /\ probe.e1 = 600 /\ probe.s2 = 600 /\ probe.e2 = 660
  /\ ~probe.out

\* the quantity of the resource spelled name in a parsed resource mapping
SpelledQty(rr, name) == DGet(rr, name, 0)

\* the quantity of name over the rows that parse, are on day d and overlap [s, e)
RECURSIVE SpelledOver(_, _, _, _, _)
SpelledOver(rows, d, s, e, name) ==
  IF rows = <<>> THEN 0
  ELSE (IF RowOverlaps(rows[1], d, s, e)
        THEN SpelledQty(parse_resources(rows[1].resources), name) ELSE 0)
       + SpelledOver(Tail(rows), d, s, e, name)

(* C15: for every ledger and probe (date, start, end), the used quantity the
   check computes for a resource name equals the sum of the quantities of
   that name over exactly the rows that parse, have the probe's date and
   overlap the probe's interval (names as they are spelled; names that
   differ in letter case are the subject of C16). *)
C15_UsageExact ==
  probe.fn = "check_availability"
    => \A name \in EngineNames :
         UsedCount(probe.cc, name)
           = SpelledOver(ledger, probe.d, probe.s, probe.e, name)

\* a probe on a ledger of two rows with A of which exactly one takes part
C15_Witness ==
  /\ probe.fn = "check_availability"
  /\ Len(ledger) = 2
  /\ SpelledQty(parse_resources(ledger[1].resources), NameA) = 1
  /\ SpelledQty(parse_resources(ledger[2].resources), NameA) = 1
  /\ RowOverlaps(ledger[1], probe.d, probe.s, probe.e)
  /\ ~RowOverlaps(ledger[2], probe.d, probe.s, probe.e)
  /\ UsedCount(probe.cc, NameA) = 1

(* C16: names that differ only in letter case or surrounding blanks denote
   one resource in the check: when a request is accepted, for every
   inventory resource the quantity requested under all its spellings plus
   the quantity committed under all its spellings in the overlapping rows of
   the day is at most the inventory quantity. *)
C16_NamesCaseInsensitive ==
  (probe.fn = "check_availability" /\ probe.out.ok)
    => \A i \in 1..Len(inventory) :
         QtyOf(probe.requested, inventory[i][1])
           + CommittedOver(ledger, probe.d, probe.s, probe.e, inventory[i][1])
         <= inventory[i][2]

\* the requested pairs that fail: not in the inventory or count 0, or fewer
\* free units than requested
FailingPairs(requested, inv, cc) ==
  {i \in 1..Len(requested) :
     \/ InvCount(inv, requested[i][1]) = 0
     \/ InvCount(inv, requested[i][1]) - UsedCount(cc, requested[i][1]) < requested[i][2]}

FirstOf(S) == CHOOSE i \in S : \A j \in S : i <= j

(* C20: the check accepts exactly when no requested pair fails; otherwise it
   rejects for the first failing pair in the order of the request, naming
   its resource: not found when the inventory has none, else a shortage
   with the free count and the requested count. *)
C20_FirstFailureWins ==
  probe.fn = "check_availability"
    => LET F == FailingPairs(probe.requested, inventory, probe.cc) IN
       /\ probe.out.ok <=> F = {}
       /\ F # {} =>
            LET pair    == probe.requested[FirstOf(F)]
                inv_cnt == InvCount(inventory, pair[1])
            IN /\ probe.out.name = pair[1]
               /\ probe.out.cnt = pair[2]
               /\ inv_cnt = 0 => probe.out.kind = "not_found"
               /\ inv_cnt # 0 =>
                    /\ probe.out.kind = "shortage"
                    /\ probe.out.free = inv_cnt - UsedCount(probe.cc, pair[1])

\* a request of two pairs that both fail, rejected for the first
C20_Witness ==
  /\ probe.fn = "check_availability"
  /\ Cardinality(FailingPairs(probe.requested, inventory, probe.cc)) = 2
  /\ probe.out.name = probe.requested[1][1]
  /\ probe.out.kind = "shortage"

\* affirmative and negative confirmation texts in several letter cases
AffirmativeTexts == {"da", "Da", "DA", "ok", "Ok", "OK", "yes", "Yes", "YES"}

NegativeTexts ==
  {"otmena", "Otmena", "OTMENA", "cancel", "Cancel", "CANCEL", "net", "Net", "NET",
   "no", "No", "NO"}

\* two handler results leave the same session and the same ledger
SameOutcome(a, b) == a.s = b.s /\ a.row = b.row

(* C17: for a session in state confirm, with the ledger and inventory of the
   moment, every affirmative text leaves the same session and ledger as the
   confirm button and every negative text the same as the cancel button. *)
C17_TextEqualsButton ==
  \A u \in Users :
    sess[u].state = "confirm"
      => /\ \A t \in AffirmativeTexts :
              SameOutcome(process_confirm_text(sess[u], t), confirm_handler(sess[u], "yes"))
         /\ \A t \in NegativeTexts :
              SameOutcome(process_confirm_text(sess[u], t), confirm_handler(sess[u], "cancel"))

\* one session in confirm whose request is still free and one in confirm whose
\* request has been taken by a row committed since
C17_Witness ==
  /\ ledger # <<>>
  /\ \E u \in Users : sess[u].state = "confirm" /\ ~CheckSession(sess[u]).ok
  /\ \E u \in Users : sess[u].state = "confirm" /\ CheckSession(sess[u]).ok
                        /\ GetOr(sess[u].data.requested_parsed, <<>>) # <<>>

(* C19: after the cancel button, or a negative text in state confirm, the
   session has no state and no data (no date, times, names, cart, key maps,
   requested resources) and the ledger is as it was. *)
C19_CancelDiscardsAll ==
  [][\A u \in Users :
       (last'.u = u
          /\ \/ last'.ev = "confirm_cancel"
             \/ last'.ev = "text_confirm" /\ last'.label \in NegativeTexts)
         => (sess'[u] = Cleared /\ ledger' = ledger)]_vars

\* a negative text was answered while a committed row is in the ledger
C19_Witness ==
  /\ last.ev = "text_confirm" /\ last.label = "no" /\ last.reply = "cancelled"
  /\ sess[last.u] = Cleared
  /\ ledger # <<>>

(***************************************************************************)
(* SpecRace: two users; the confirm handler's check (get_inventory,        *)
(* get_bookings) and its append are two steps, with other users' updates   *)
(* handled in between (the handler awaits both; nothing locks the sheet)   *)
(***************************************************************************)
\* the confirm signal up to the result of check_availability
ConfirmCheck(u) ==
  /\ sess[u].state = "confirm"
  /\ LET r == confirm_handler(sess[u], "yes") IN
       IF r.row = <<>>
       THEN Deliver(u, "confirm_yes", 0, <<>>, r)
       ELSE /\ inflight' = [inflight EXCEPT ![u] = <<[row |-> r.row[1], read |-> Len(ledger)]>>]
            /\ last' = [u |-> u, ev |-> "confirm_check", key |-> 0, label |-> <<>>,
                        reply |-> "passed", name |-> <<>>]
            /\ UNCHANGED <<inventory, ledger, sess, shown, appended, summaryAt, probe, raced,
                           summarised, granted>>

\* append_booking_row, the answer, state.clear()
ConfirmAppend(u) ==
  /\ inflight[u] # <<>>
  /\ Len(ledger) < MaxLedger
  /\ ledger' = <<inflight[u][1].row>> \o ledger
  /\ sess' = [sess EXCEPT ![u] = Cleared]
  /\ inflight' = [inflight EXCEPT ![u] = <<>>]
  /\ raced' = (raced \/ Len(ledger) # inflight[u][1].read)
  /\ last' = [u |-> u, ev |-> "confirm_append", key |-> 0, label |-> <<>>,
              reply |-> "booked", name |-> <<>>]
  /\ appended' = [appended EXCEPT ![u] = @ + 1]
  /\ summaryAt' = [summaryAt EXCEPT ![u] = 0]
  /\ summarised' = [summarised EXCEPT ![u] = <<>>]
  /\ granted' = <<GetOr(sess[u].data.requested_parsed, <<>>)>> \o granted
  /\ UNCHANGED <<inventory, shown, probe>>

\* a user whose confirm handler is between check and append sends nothing
NextRace ==
  \E u \in Users :
    \/ /\ inflight[u] = <<>>
       /\ \/ Opening(u)
          \/ TextResources(u, {<<"A", ":", "1">>})
          \/ TextManager(u, {"Ann"})
          \/ ConfirmCheck(u)
    \/ ConfirmAppend(u)

SpecRace == Init /\ [][NextRace]_vars

\* some inventory resource is committed beyond its quantity at some instant
Overbooked ==
  \E d \in Days : \E t \in Instants : \E i \in 1..Len(inventory) :
    CommittedAt(ledger, d, t, inventory[i][1]) > inventory[i][2]

(* C18: when the check and the append of the confirm handler are separate
   steps, a resource is overcommitted only after a row was appended to a
   ledger other than the one its check had read, and that execution exists:
   two sessions pass the check for the same day, window and resource before
   either appends, and both append. *)
C18_OvercommitOnlyByRace == Overbooked => raced

\* both rows ask the one unit of A for the same day and window
C18_Witness ==
  /\ raced /\ Overbooked
  /\ Len(ledger) = 2
  /\ ledger[1].resources = <<"A", ":", "1">> /\ ledger[2].resources = <<"A", ":", "1">>
  /\ ledger[1].date = ledger[2].date
  /\ ledger[1].start = ledger[2].start /\ ledger[1].end = ledger[2].end
  /\ \A u \in Users : appended[u] = 1

(***************************************************************************)
(* SpecPair: two users at the catalog and the quantity prompt, one of them *)
(* going on to the confirmation; one unit of A                             *)
(***************************************************************************)
NextPair ==
  \/ \E u \in Users :
       \/ Book(u) \/ TextDate(u, {"2026-03-10"}) \/ TextStart(u, {"09:00"})
       \/ TextEnd(u, {"10:00"}) \/ TextName(u, {"Ann"})
       \/ PressSelect(u) \/ PressQty(u)
  \/ PressFinish("u2") \/ TextManager("u2", {"Ann"}) \/ PressConfirm("u2")

SpecPair == Init /\ [][NextPair]_vars

(* C21: an update handled for one user leaves the state, the data (collected
   fields, cart, key maps, transient selection) and the buttons of every
   other user unchanged, and changes the ledger at most by putting one row
   on it. *)
C21_SessionsIndependent ==
  [][/\ \A u \in Users :
          last'.u # u => sess'[u] = sess[u] /\ shown'[u] = shown[u]
     /\ \/ ledger' = ledger
        \/ Len(ledger') = Len(ledger) + 1 /\ SubSeq(ledger', 2, Len(ledger')) = ledger]_vars

\* u1 adds to its cart while u2 holds another cart and a transient selection
C21_Witness ==
  /\ last.u = "u1" /\ last.ev = "qty_add" /\ last.reply = "added"
  /\ sess["u2"].data.cart # <<>>
  /\ sess["u2"].data.temp_select # <<>>
  /\ sess["u2"].data.cart # sess["u1"].data.cart
  /\ ledger # <<>>

\* the texts a user may send where a date or a time is awaited
SentTexts == DateTexts \cup TimeTexts \cup PersonTexts \cup ConfirmTexts

(* C22: a text that does not parse as a date, sent while the date is awaited,
   or that does not parse as a time, sent while the start or the end is
   awaited, is answered with the format message, appends nothing and leaves
   the state and every field of the session as they were. *)
C22_ParseErrorKeepsSession ==
  \A u \in Users : \A t \in SentTexts :
    LET s == sess[u]
        r == CASE s.state = "waiting_for_date"  -> process_date(s, t)
               [] s.state = "waiting_for_start" -> process_start(s, t)
               [] s.state = "waiting_for_end"   -> process_end(s, t)
               [] OTHER                         -> Answer(s, "none")
        bad == CASE s.state = "waiting_for_date" -> ParseDate(StripText(t)) = <<>>
                 [] s.state \in {"waiting_for_start", "waiting_for_end"}
                      -> ParseTime(StripText(t)) = <<>>
                 [] OTHER -> FALSE
    IN bad => /\ r.s = s
              /\ r.row = <<>>
              /\ r.reply = (IF s.state = "waiting_for_date" THEN "bad_date" ELSE "bad_time")

\* "9 am" was sent as the end: date and start are still held, the end is awaited
C22_Witness ==
  /\ last.ev = "text_end" /\ last.reply = "bad_time"
  /\ sess[last.u].state = "waiting_for_end"
  /\ sess[last.u].data.booking_date = <<"2026-03-10">>
  /\ sess[last.u].data.start_time = <<"09:00">>
  /\ sess[last.u].data.end_time = <<>>

(* C23: after the inc, dec or noop button of a quantity prompt whose key
   resolves, the transient quantity q is at least 1 and at most the quantity
   the inventory now holds for the resource, also when the inventory was
   edited since the resource was selected. *)
C23_QuantityClamped ==
  [][(/\ last'.ev \in {"qty_inc", "qty_dec", "qty_noop"}
      /\ last'.reply = "qty_prompt")
     => LET q == sess'[last'.u].data.temp_select[1].count IN
        1 <= q /\ q <= MaxCount(inventory', last'.name)]_vars

(* C24: the add button of a quantity prompt with transient quantity q for the
   resource n sets cart[n] to its previous quantity (0 when absent) plus q and
   leaves every other cart entry as it was; adding 2 and then 3 of one
   resource gives 5. *)
C24_AddAccumulates ==
  /\ AddToCart(AddToCart(<<>>, NameA, 2), NameA, 3) = <<<<NameA, 5>>>>
  /\ [][(last'.ev = "qty_add" /\ last'.reply = "added")
        => LET u   == last'.u
               n   == last'.name
               q   == IF /\ sess[u].data.temp_select # <<>>
                         /\ sess[u].data.temp_select[1].key = last'.key
                      THEN sess[u].data.temp_select[1].count ELSE 1
               old == CartOf(sess[u])
               new == CartOf(sess'[u])
           IN /\ DHas(new, n) /\ DGet(new, n, 0) = DGet(old, n, 0) + q
              /\ \A m \in {NameA, NameB} \ {n} :
                   /\ DHas(new, m) = DHas(old, m)
                   /\ DGet(new, m, 0) = DGet(old, m, 0)]_vars

\* one more A was added to a cart that held one A and one B
C24_Witness ==
  /\ last.ev = "qty_add" /\ last.reply = "added" /\ last.name = NameA
  /\ sess[last.u].data.temp_select # <<>>
  /\ sess[last.u].data.temp_select[1].name = NameA
  /\ sess[last.u].data.temp_select[1].count = 1
  /\ DGet(CartOf(sess[last.u]), NameA, 0) = 2
  /\ DGet(CartOf(sess[last.u]), NameB, 0) = 1

(* C25: the decrement button of a cart message, on a key that resolves to a
   name n present in the cart, removes the entry of n when its quantity is 1
   and otherwise lowers it by exactly 1; every other entry stays as it was;
   when the cart is still non-empty the stored cart_map is built anew and its
   values are exactly the names now in the cart. *)
C25_DecrementOne ==
  [][\A u \in Users :
       LET nm  == ResolveCartKey(sess[u], last'.key)
           old == CartOf(sess[u])
           new == CartOf(sess'[u])
           map == GetOr(sess'[u].data.cart_map, <<>>)
       IN (/\ last'.u = u /\ last'.ev = "cart_dec"
           /\ nm # <<>> /\ DHas(old, nm[1]))
          => /\ IF DGet(old, nm[1], 0) = 1 THEN ~DHas(new, nm[1])
                ELSE DHas(new, nm[1]) /\ DGet(new, nm[1], 0) = DGet(old, nm[1], 0) - 1
             /\ \A m \in {NameA, NameB} \ {nm[1]} :
                  /\ DHas(new, m) = DHas(old, m)
                  /\ DGet(new, m, 0) = DGet(old, m, 0)
             /\ new # <<>> => /\ Len(map) = Len(new)
                              /\ \A i \in 1..Len(new) : map[i] = new[i][1]]_vars

\* the only A was decremented away from a cart of A and B: B is left, and the
\* cart_map names B alone
C25_Witness ==
  /\ last.ev = "cart_dec" /\ last.reply = "cart_item_removed" /\ last.name = NameA
  /\ CartOf(sess[last.u]) = <<<<NameB, 1>>>>
  /\ sess[last.u].data.cart_map = <<<<NameB>>>>

(* C26: whenever the confirm button or a confirming text appends a record,
   its date, start, end, employee, resources and manager are those of the
   last confirmation summary sent in that session, whatever buttons of
   earlier catalog, quantity or cart messages were pressed after the
   summary. *)
C26_CommittedAsSummarised ==
  [][\A u \in Users :
       (last'.u = u /\ Len(ledger') = Len(ledger) + 1)
         => summarised[u] = <<ledger'[1]>>]_vars

(***************************************************************************)
(* SpecCartBook: one user books through the cart only, again and again,    *)
(* over a fixed inventory: one unit of A, or one unit of "C,D"             *)
(***************************************************************************)
InitCartBook == \E inv \in {InvA, InvCD} : InitWith(inv)

NextCartBook ==
  \/ Opening("u1") \/ PressSelect("u1") \/ PressQty("u1") \/ PressQtyCancel("u1")
  \/ Cart("u1") \/ PressFinish("u1") \/ TextManager("u1", {"Ann"})
  \/ TextConfirm("u1", {"Yes", "no"}) \/ PressConfirm("u1")

SpecCartBook == InitCartBook /\ [][NextCartBook]_vars

\* the quantity of resource name, as the carts held it, in the first k ledger
\* rows whose interval on day d contains instant t
RECURSIVE GrantedAt(_, _, _, _)
GrantedAt(k, d, t, name) ==
  IF k = 0 THEN 0
  ELSE (IF RowCovers(ledger[k], d, t) THEN DGet(granted[k], name, 0) ELSE 0)
       + GrantedAt(k - 1, d, t, name)

(* C27: with a fixed inventory, a ledger that starts empty, handlers run one
   at a time and resources chosen through the cart only, the quantities
   committed for a resource over the records covering an instant never
   exceed its inventory quantity, for every day, instant and resource. *)
C27_CartOnlyNeverOverbooks ==
  \A d \in Days : \A t \in Instants : \A i \in 1..Len(inventory) :
    GrantedAt(Len(ledger), d, t, inventory[i][1]) <= inventory[i][2]

====
